---- MODULE Spec2Model ----
(***************************************************************************)
(* A model of kyobo_to_notion.py: the Kyobo -> Notion collector.  Pending  *)
(* Notion rows are resolved to a Kyobo identifier, the detail page is      *)
(* scraped, and the row is patched.                                        *)
(*                                                                         *)
(* Python values are records [t, s, n]: None, a str (a sequence of         *)
(* one-character strings) or an int.  A float score is a fraction [n, d].  *)
(* The storefront's brand name is one symbol of the alphabet: "K" stands   *)
(* for the Korean brand name and "E" for the English one; "-" stands for   *)
(* the three dash characters the title pattern accepts.                    *)
(***************************************************************************)
EXTENDS Integers, Sequences, FiniteSets, TLC

VARIABLES
    pc,     \* the position of the running function
    inp,    \* the arguments and the outside world (catalog site, schema), fixed by Init
    loc,    \* the local variables of the running function
    db,     \* the Notion rows: cover and property values of each page
    calls   \* the external requests made so far, in order

vars == <<pc, inp, loc, db, calls>>

----------------------------------------------------------------------------
(* Python values *)

None == [t |-> "none", s |-> <<>>, n |-> 0]
Str(s) == [t |-> "str", s |-> s, n |-> 0]
Num(n) == [t |-> "int", s |-> <<>>, n |-> n]

\* Python truthiness of None, a str or an int
Truthy(v) == \/ (v.t = "str" /\ v.s # <<>>)
             \/ (v.t = "int" /\ v.n # 0)

\* x or y
PyOr(x, y) == IF Truthy(x) THEN x ELSE y

Max(a, b) == IF a >= b THEN a ELSE b
Min(a, b) == IF a <= b THEN a ELSE b

\* all strings over alphabet S of length at most n
Strs(S, n) == UNION {[1..k -> S] : k \in 0..n}

\* Python slice s[lo:hi], 0-based, clipped to the string
Slice(s, lo, hi) == SubSeq(s, lo + 1, Min(hi, Len(s)))

\* Python "k in s" for strings
IsSubstr(k, s) == \E i \in 0..(Len(s) - Len(k)) : Slice(s, i, i + Len(k)) = k

----------------------------------------------------------------------------
(* Character classes and whitespace handling *)

IsSpace(c) == c = " "
IsDash(c) == c = "-"
IsBrand(c) == c \in {"K", "E"}
Digits == <<"0", "1", "2", "3", "4", "5", "6", "7", "8", "9">>
IsDigit(c) == \E i \in 1..10 : Digits[i] = c

LowerChar(c) == CASE c = "A" -> "a"
                  [] c = "B" -> "b"
                  [] OTHER -> c

\* str.lower()
Lower(s) == [i \in 1..Len(s) |-> LowerChar(s[i])]

RECURSIVE LStrip(_)
LStrip(s) == IF s # <<>> /\ IsSpace(Head(s)) THEN LStrip(Tail(s)) ELSE s

RECURSIVE RStrip(_)
RStrip(s) == IF s # <<>> /\ IsSpace(s[Len(s)]) THEN RStrip(SubSeq(s, 1, Len(s) - 1)) ELSE s

\* str.strip()
Strip(s) == RStrip(LStrip(s))

\* re.sub(r"\s+", " ", s)
RECURSIVE CollapseWs(_)
CollapseWs(s) ==
    IF s = <<>> THEN <<>>
    ELSE IF IsSpace(Head(s)) THEN <<" ">> \o CollapseWs(LStrip(Tail(s)))
    ELSE <<Head(s)>> \o CollapseWs(Tail(s))

\* _norm: lower-case, collapse whitespace, strip; None counts as ""
_norm(v) == Strip(CollapseWs(Lower(IF Truthy(v) THEN v.s ELSE <<>>)))

----------------------------------------------------------------------------
(* _sim: bigram similarity *)

Zero == [n |-> 0, d |-> 1]
MinusOne == [n |-> -1, d |-> 1]

\* a > b for fractions with positive denominators
FGt(a, b) == a.n * b.d > b.n * a.d

\* {a[i : i + 2] for i in range(max(len(a) - 1, 1))}
Bigrams(a) == {Slice(a, i, i + 2) : i \in 0..(Max(Len(a) - 1, 1) - 1)}

_sim(a, b) ==
    LET A == Bigrams(a)
        B == Bigrams(b)
    IN  IF A = {} THEN Zero
        ELSE [n |-> Cardinality(A \cap B), d |-> Cardinality(A)]

----------------------------------------------------------------------------
(* clean_book_title *)

PipeSep == <<" ", "|", " ">>

\* t.split(" | ", 1)[0]
BeforePipe(t) ==
    LET first == CHOOSE i \in 0..(Len(t) - 3) :
                    /\ Slice(t, i, i + 3) = PipeSep
                    /\ \A j \in 0..(i - 1) : Slice(t, j, j + 3) # PipeSep
    IN  Slice(t, 0, first)

\* re.sub(r"\s*[-]\s*(brand)\s*$", "", t): one trailing separator-plus-brand tail
StripBrandTail(t) ==
    LET u == RStrip(t)
    IN  IF u # <<>> /\ IsBrand(u[Len(u)])
        THEN LET v == RStrip(SubSeq(u, 1, Len(u) - 1))
             IN  IF v # <<>> /\ IsDash(v[Len(v)])
                 THEN RStrip(SubSeq(v, 1, Len(v) - 1))
                 ELSE t
        ELSE t

clean_str(t0) ==
    LET t1 == Strip(CollapseWs(t0))
        t2 == IF IsSubstr(PipeSep, t1) THEN Strip(BeforePipe(t1)) ELSE t1
    IN  StripBrandTail(t2)

clean_book_title(t) == IF ~Truthy(t) THEN t ELSE Str(clean_str(t.s))

----------------------------------------------------------------------------
(* Specification of the similarity scorer: _sim on every pair of strings *)

MaxSimLen == 3
SimAlphabet == {"a", "b"}

InitSim ==
    /\ pc = "sim_call"
    /\ inp \in [a : Strs(SimAlphabet, MaxSimLen), b : Strs(SimAlphabet, MaxSimLen)]
    /\ loc = <<>>
    /\ db = <<>>
    /\ calls = <<>>

SimCall ==
    /\ pc = "sim_call"
    /\ loc' = [score |-> _sim(inp.a, inp.b)]
    /\ pc' = "sim_done"
    /\ UNCHANGED <<inp, db, calls>>

NextSim == SimCall

SpecSim == InitSim /\ [][NextSim]_vars

\* C5: the similarity of an empty query to any candidate is 0.0.
SimEmptyQueryIsZero ==
    (pc = "sim_done" /\ inp.a = <<>>) => loc.score.n = 0

----------------------------------------------------------------------------
(* Specification of title post-processing: clean_book_title applied twice *)

MaxTitleLen == 5
TitleAlphabet == {"a", " ", "|", "-", "K", "E"}

InitClean ==
    /\ pc = "clean_call"
    /\ inp \in [t : {None} \cup {Str(s) : s \in Strs(TitleAlphabet, MaxTitleLen)}]
    /\ loc = <<>>
    /\ db = <<>>
    /\ calls = <<>>

CleanOnce ==
    /\ pc = "clean_call"
    /\ loc' = [once |-> clean_book_title(inp.t)]
    /\ pc' = "clean_again"
    /\ UNCHANGED <<inp, db, calls>>

CleanTwice ==
    /\ pc = "clean_again"
    /\ loc' = [once |-> loc.once, twice |-> clean_book_title(loc.once)]
    /\ pc' = "clean_done"
    /\ UNCHANGED <<inp, db, calls>>

NextClean == CleanOnce \/ CleanTwice

SpecClean == InitClean /\ [][NextClean]_vars

\* C6: cleaning a cleaned title changes nothing.
CleanIdempotent ==
    pc = "clean_done" => loc.twice = loc.once

----------------------------------------------------------------------------
(* map_genre *)

\* s.split(sep) for a one-character separator
RECURSIVE Split(_, _)
Split(s, sep) ==
    IF \A i \in 1..Len(s) : s[i] # sep THEN <<s>>
    ELSE LET first == CHOOSE i \in 1..Len(s) :
                         s[i] = sep /\ \A j \in 1..(i - 1) : s[j] # sep
         IN  <<SubSeq(s, 1, first - 1)>> \o Split(SubSeq(s, first + 1, Len(s)), sep)

\* the inner loop: some k of keys.split(","), stripped and lower-cased, is non-empty and in R
KeysHit(keys, R) ==
    LET parts == Split(keys, ",")
    IN  \E i \in 1..Len(parts) :
            LET k == Lower(Strip(parts[i]))
            IN  k # <<>> /\ IsSubstr(k, R)

\* a plausible slip: the last matching rule wins
RECURSIVE GenreLoopLast(_, _, _)
GenreLoopLast(R, gmap, found) ==
    IF gmap = <<>> THEN found
    ELSE GenreLoopLast(R, Tail(gmap),
                       IF KeysHit(Head(gmap).keys, R) THEN Head(gmap).val ELSE found)

map_genre_last(raw, gmap) ==
    IF ~Truthy(raw) THEN None ELSE GenreLoopLast(_norm(raw), gmap, None)

\* the outer loop over GENRE_MAP.items(), in insertion order
RECURSIVE GenreLoop(_, _)
GenreLoop(R, gmap) ==
    IF gmap = <<>> THEN None
    ELSE IF KeysHit(Head(gmap).keys, R) THEN Head(gmap).val
    ELSE GenreLoop(R, Tail(gmap))

map_genre(raw, gmap) ==
    IF ~Truthy(raw) THEN None ELSE GenreLoop(_norm(raw), gmap)

----------------------------------------------------------------------------
(* Specification of the genre mapper: map_genre on every raw value and map *)

MaxRawLen == 3
MaxRules == 2
GenreAlphabet == {"a", "A", "r", " ", ","}

\* the rules a configured map is made of: the JSON object's key and value
GenreRules == {
    [keys |-> <<"a", ",", "r">>,       val |-> Str(<<"X">>)],
    [keys |-> <<" ", "A", " ">>,       val |-> Str(<<"Y">>)],
    [keys |-> <<"r">>,                 val |-> Str(<<"Z">>)],
    [keys |-> <<",", " ", ",">>,       val |-> Str(<<"X">>)],
    [keys |-> <<"a", " ", "r">>,       val |-> Str(<<"Y">>)],
    [keys |-> <<"r", "a", ",", "A", "A">>, val |-> Str(<<"Z">>)] }

\* the maps json.loads can produce: rules in insertion order, no key twice
GenreMaps ==
    {m \in UNION {[1..k -> GenreRules] : k \in 0..MaxRules} :
        \A i, j \in 1..Len(m) : i # j => m[i].keys # m[j].keys}

InitGenre ==
    /\ pc = "genre_call"
    /\ inp \in [raw : {None} \cup {Str(s) : s \in Strs(GenreAlphabet, MaxRawLen)},
                GENRE_MAP : GenreMaps]
    /\ loc = <<>>
    /\ db = <<>>
    /\ calls = <<>>

GenreCall ==
    /\ pc = "genre_call"
    /\ loc' = [mapped |-> map_genre(inp.raw, inp.GENRE_MAP)]
    /\ pc' = "genre_done"
    /\ UNCHANGED <<inp, db, calls>>

NextGenre == GenreCall

SpecGenre == InitGenre /\ [][NextGenre]_vars

\* the keywords of a rule: the maximal comma-free pieces of its key, trimmed and
\* case-folded, the empty ones left out
RuleKeywords(keys) ==
    {Lower(Strip(Slice(keys, i, j))) :
        <<i, j>> \in {p \in (0..Len(keys)) \X (0..Len(keys)) :
            /\ p[1] <= p[2]
            /\ \A x \in (p[1] + 1)..p[2] : keys[x] # ","
            /\ (p[1] = 0 \/ keys[p[1]] = ",")
            /\ (p[2] = Len(keys) \/ keys[p[2] + 1] = ",")}} \ {<<>>}

RuleMatches(rule, raw) ==
    \E k \in RuleKeywords(rule.keys) : IsSubstr(k, _norm(raw))

\* C8: the result is the value of the first rule, in insertion order, one of whose
\* keywords occurs in the normalized raw value, and None when there is no such rule
\* or the raw value is None or empty.
GenreFirstMatchWins ==
    pc = "genre_done" =>
        LET m == inp.GENRE_MAP
            hits == {i \in 1..Len(m) : RuleMatches(m[i], inp.raw)}
        IN  IF Truthy(inp.raw) /\ hits # {}
            THEN \E i \in hits : (\A j \in hits : i <= j) /\ loc.mapped = m[i].val
            ELSE loc.mapped = None

\* a raw value in upper case hits a second rule after a first one that also matches
GenreWitness ==
    /\ pc = "genre_done"
    /\ Len(inp.GENRE_MAP) = 2
    /\ inp.raw.s # Lower(inp.raw.s)
    /\ \A i \in 1..2 : RuleMatches(inp.GENRE_MAP[i], inp.raw)
    /\ inp.GENRE_MAP[1].val # inp.GENRE_MAP[2].val
    /\ loc.mapped = inp.GENRE_MAP[1].val

----------------------------------------------------------------------------
(* The catalog site and the detail-page parsers.                           *)
(* A fetched page is what the parsers read from its markup:                *)
(*   ok        whether the HTTP status is a success (raise_for_status)     *)
(*   items     the JSON-LD items of the page, in document order, each with *)
(*             its @type and the values of name, author (already joined),  *)
(*             publisher, numberOfPages, genre and isbn                    *)
(*   headings  the text of the node each title selector finds, in selector *)
(*             order (selectors that find no node are left out)            *)
(*   og        the content of the og:image meta tag, or None               *)
(*   pagesText the number the page-count pattern finds in the text, or None*)

TitleMax == 100

IsDigits(s) == s # <<>> /\ \A i \in 1..Len(s) : IsDigit(s[i])

DigitVal(c) == (CHOOSE i \in 1..10 : Digits[i] = c) - 1

\* int(s) for a string of digits
RECURSIVE ParseInt(_)
ParseInt(s) ==
    IF s = <<>> THEN 0
    ELSE 10 * ParseInt(SubSeq(s, 1, Len(s) - 1)) + DigitVal(s[Len(s)])

\* re.sub(r"\s+", " ", x).strip() if x else None
NormField(x) == IF Truthy(x) THEN Str(Strip(CollapseWs(x.s))) ELSE None

\* f"{KYOBO_DETAIL}/{kyobo_id}"
DetailUrl(kyobo_id) == Str(<<"/">> \o kyobo_id)

EmptyInfo(kyobo_id) ==
    [kyobo_id |-> Str(kyobo_id), detail_url |-> DetailUrl(kyobo_id),
     title |-> None, cover |-> None, author |-> None, publisher |-> None,
     pages |-> None, genre |-> None, isbn |-> None]

JsonldKeys == {"title", "author", "publisher", "pages", "genre", "isbn"}

\* the loop over the items: for a Book or Product, x = x or it.get(...)
RECURSIVE JsonldLoop(_, _)
JsonldLoop(items, acc) ==
    IF items = <<>> THEN acc
    ELSE LET it == Head(items)
         IN  JsonldLoop(Tail(items),
                IF it.type \in {"Book", "Product"}
                THEN [title     |-> PyOr(acc.title, it.name),
                      author    |-> PyOr(acc.author, it.author),
                      publisher |-> PyOr(acc.publisher, it.publisher),
                      pages     |-> PyOr(acc.pages, it.numberOfPages),
                      genre     |-> PyOr(acc.genre, it.genre),
                      isbn      |-> PyOr(acc.isbn, it.isbn)]
                ELSE acc)

NoJsonld == [title |-> None, author |-> None, publisher |-> None,
             pages |-> None, genre |-> None, isbn |-> None]

\* the dict _jsonld_extract_all returns, from the values the loop collected
JsonldResult(raw) ==
    [title     |-> clean_book_title(raw.title),
     author    |-> NormField(raw.author),
     publisher |-> NormField(raw.publisher),
     pages     |-> IF raw.pages.t = "str" /\ IsDigits(raw.pages.s)
                   THEN Num(ParseInt(raw.pages.s)) ELSE raw.pages,
     genre     |-> NormField(raw.genre),
     isbn      |-> raw.isbn]

_jsonld_extract_all(items) == JsonldResult(JsonldLoop(items, NoJsonld))

\* cand and len(cand) <= 100 and the brand name not in cand
TitleAccepted(cand) ==
    Truthy(cand) /\ Len(cand.s) <= TitleMax /\ ~IsSubstr(<<"K">>, cand.s)

\* the selector loop: the first node whose cleaned text is accepted
RECURSIVE TitleLoop(_)
TitleLoop(cands) ==
    IF cands = <<>> THEN None
    ELSE IF TitleAccepted(Head(cands)) THEN Head(cands)
    ELSE TitleLoop(Tail(cands))

extract_title_from_body_html(headings) ==
    TitleLoop([i \in 1..Len(headings) |-> clean_book_title(Str(Strip(headings[i])))])

\* for k, v in other.items(): if v and not info.get(k): info[k] = v
MergeAbsent(info, other) ==
    [k \in DOMAIN info |->
        IF k \in DOMAIN other /\ Truthy(other[k]) /\ ~Truthy(info[k])
        THEN other[k] ELSE info[k]]

\* stage 2 of fetch_detail_static: if body_title: info["title"] = body_title
HeadingStage(info, body_title) ==
    IF Truthy(body_title) THEN [info EXCEPT !.title = body_title] ELSE info

\* stage 3: if cov and not info["cover"]: info["cover"] = cov
CoverStage(info, og) ==
    IF Truthy(og) /\ ~Truthy(info.cover) THEN [info EXCEPT !.cover = og] ELSE info

\* stage 4 of the static pass: the page count found in the text, unless light
PagesStage(info, pagesText, light) ==
    IF ~light /\ ~Truthy(info.pages) /\ pagesText # None
    THEN [info EXCEPT !.pages = pagesText] ELSE info

\* if info["title"]: info["title"] = clean_book_title(info["title"])
FinalClean(info) ==
    IF Truthy(info.title) THEN [info EXCEPT !.title = clean_book_title(info.title)] ELSE info

\* the static pass on a page whose status is a success
fetch_detail_static(kyobo_id, page, light) ==
    FinalClean(
      PagesStage(
        CoverStage(
          HeadingStage(MergeAbsent(EmptyInfo(kyobo_id), _jsonld_extract_all(page.items)),
                       extract_title_from_body_html(page.headings)),
          page.og),
        page.pagesText, light))

\* the JSON-LD loop of the rendered pass, writing into info directly
RECURSIVE BrowserJsonldLoop(_, _)
BrowserJsonldLoop(items, info) ==
    IF items = <<>> THEN info
    ELSE LET it == Head(items)
         IN  BrowserJsonldLoop(Tail(items),
                IF it.type \in {"Book", "Product"}
                THEN [info EXCEPT
                        !.title     = PyOr(info.title, clean_book_title(it.name)),
                        !.author    = PyOr(info.author, it.author),
                        !.publisher = PyOr(info.publisher, it.publisher),
                        !.pages     = PyOr(info.pages, it.numberOfPages),
                        !.genre     = PyOr(info.genre, it.genre),
                        !.isbn      = PyOr(info.isbn, it.isbn)]
                ELSE info)

\* stage 2 of the rendered pass: the heading title only if not info["title"]
BrowserHeadingStage(info, body_title) ==
    IF ~Truthy(info.title) /\ Truthy(body_title)
    THEN [info EXCEPT !.title = body_title] ELSE info

\* stage 4 of the rendered pass
BrowserPagesStage(info, pagesText) ==
    IF ~Truthy(info.pages) /\ pagesText # None
    THEN [info EXCEPT !.pages = pagesText] ELSE info

\* stages 1 and 2 of the rendered pass
BrowserTitleStages(kyobo_id, rendered) ==
    BrowserHeadingStage(BrowserJsonldLoop(rendered.items, EmptyInfo(kyobo_id)),
                        extract_title_from_body_html(rendered.headings))

\* the rendered pass once playwright is imported.  fail is where the browser
\* session raises: "goto" (launch or navigation), "og" (reading the og:image
\* attribute) or "never"; the except clause keeps what was filled before it
fetch_detail_browser(kyobo_id, rendered, fail) ==
    FinalClean(
        CASE fail = "goto" -> EmptyInfo(kyobo_id)
          [] fail = "og"   -> BrowserTitleStages(kyobo_id, rendered)
          [] OTHER         ->
                BrowserPagesStage(
                    CoverStage(BrowserTitleStages(kyobo_id, rendered), rendered.og),
                    rendered.pagesText))

\* not any([title, author, publisher, cover])
CoreEmpty(info) ==
    ~(Truthy(info.title) \/ Truthy(info.author) \/ Truthy(info.publisher)
        \/ Truthy(info.cover))

\* fetch_detail after the static pass returned info
FetchAfterStatic(kyobo_id, entry, info) ==
    IF ~CoreEmpty(info)
    THEN [raised |-> FALSE, fallback |-> FALSE, info |-> info]
    ELSE IF entry.browser = "missing"
    THEN [raised |-> TRUE, fallback |-> TRUE, info |-> info]
    ELSE [raised |-> FALSE, fallback |-> TRUE,
          info |-> MergeAbsent(info,
                     fetch_detail_browser(kyobo_id, entry.rendered, entry.browser))]

\* fetch_detail on a catalog entry [page, rendered, browser]: browser is "missing"
\* when playwright cannot be imported, else where the browser session raises.
\* The result says whether the call raised, whether the fallback ran, and the record.
fetch_detail(kyobo_id, entry, light) ==
    IF ~entry.page.ok
    THEN [raised |-> TRUE, fallback |-> FALSE, info |-> EmptyInfo(kyobo_id)]
    ELSE FetchAfterStatic(kyobo_id, entry,
                          fetch_detail_static(kyobo_id, entry.page, light))

----------------------------------------------------------------------------
(* Specification of the extractor: fetch_detail on every page of a bounded *)
(* set, the static pass first and the rendered fallback after it           *)

MaxItems == 2
MaxHeadings == 2

Item(type, name, author, publisher, numberOfPages, genre) ==
    [type |-> type, name |-> name, author |-> author, publisher |-> publisher,
     numberOfPages |-> numberOfPages, genre |-> genre, isbn |-> None]

JsonldItems == {
    Item("Book", Str(<<"a">>), Str(<<"w", " ", " ", "v">>), None, Str(<<"1", "0">>), Str(<<"r">>)),
    Item("Product", Str(<<"b", " ", "|", " ", "a">>), None, Str(<<"p">>), Str(<<"x">>), None),
    Item("WebPage", Str(<<"c">>), Str(<<"w">>), Str(<<"p">>), Num(1), Str(<<"r">>)),
    Item("Book", None, None, None, None, None),
    Item("Book", Str(<<"a", "-", "K">>), None, None, Num(0), None) }

HeadingTexts == { <<>>, <<"b">>, <<"K">>, <<" ", "a", " ", "-", "E">> }

StaticPages ==
    [ok : {TRUE},
     items : UNION {[1..k -> JsonldItems] : k \in 0..MaxItems},
     headings : UNION {[1..k -> HeadingTexts] : k \in 0..MaxHeadings},
     og : {None, Str(<<"c">>)},
     pagesText : {None, Num(7)}]

FailingPage ==
    [ok |-> FALSE, items |-> <<>>, headings |-> <<>>, og |-> None, pagesText |-> None]

RenderedPages == {
    [items |-> <<>>, headings |-> <<>>, og |-> None, pagesText |-> None],
    [items |-> <<Item("Book", Str(<<"b", "-", "E">>), Str(<<"w">>), None, Str(<<"1">>), None)>>,
     headings |-> << <<"a">> >>, og |-> Str(<<"c">>), pagesText |-> Num(7)],
    [items |-> <<>>, headings |-> << <<"K">>, <<"a">> >>, og |-> None, pagesText |-> Num(7)] }

BrowserModes == {"missing", "goto", "og", "never"}

FetchId == <<"S", "0", "0", "0", "0", "0", "1">>

InitFetch ==
    /\ pc = "fetch_static"
    /\ inp \in [kyobo_id : {FetchId},
                entry : [page : StaticPages \cup {FailingPage},
                         rendered : RenderedPages,
                         browser : BrowserModes],
                light : BOOLEAN]
    /\ loc = <<>>
    /\ db = <<>>
    /\ calls = <<>>

\* requests.get(...).raise_for_status() raises
FetchStaticRaises ==
    /\ pc = "fetch_static"
    /\ ~inp.entry.page.ok
    /\ loc' = [raised |-> "static"]
    /\ pc' = "fetch_raised"
    /\ calls' = Append(calls, <<"detail", inp.kyobo_id>>)
    /\ UNCHANGED <<inp, db>>

\* fetch_detail_static returns; the fallback is next when the core fields are all absent
FetchStaticReturns ==
    /\ pc = "fetch_static"
    /\ inp.entry.page.ok
    /\ LET info == fetch_detail_static(inp.kyobo_id, inp.entry.page, inp.light)
       IN  /\ loc' = [jd |-> _jsonld_extract_all(inp.entry.page.items),
                      body_title |-> extract_title_from_body_html(inp.entry.page.headings),
                      static |-> info, info |-> info, fallback |-> FALSE]
           /\ pc' = IF CoreEmpty(info) THEN "fetch_fallback" ELSE "fetch_done"
    /\ calls' = Append(calls, <<"detail", inp.kyobo_id>>)
    /\ UNCHANGED <<inp, db>>

\* fetch_detail_browser: the import of playwright raises, outside the try block
FallbackImportRaises ==
    /\ pc = "fetch_fallback"
    /\ inp.entry.browser = "missing"
    /\ loc' = [loc EXCEPT !.fallback = TRUE] @@ [raised |-> "import"]
    /\ pc' = "fetch_raised"
    /\ UNCHANGED <<inp, db, calls>>

\* fetch_detail_browser returns (its own errors caught) and its values are merged
FallbackReturns ==
    /\ pc = "fetch_fallback"
    /\ inp.entry.browser # "missing"
    /\ LET info2 == fetch_detail_browser(inp.kyobo_id, inp.entry.rendered, inp.entry.browser)
       IN  loc' = [loc EXCEPT !.fallback = TRUE, !.info = MergeAbsent(loc.info, info2)]
    /\ pc' = "fetch_done"
    /\ calls' = Append(calls, <<"rendered", inp.kyobo_id>>)
    /\ UNCHANGED <<inp, db>>

NextFetch ==
    \/ FetchStaticRaises
    \/ FetchStaticReturns
    \/ FallbackImportRaises
    \/ FallbackReturns

SpecFetch == InitFetch /\ [][NextFetch]_vars

\* the steps above end where fetch_detail, taken as one call, ends
FetchStepsAgree ==
    LET r == fetch_detail(inp.kyobo_id, inp.entry, inp.light)
    IN  /\ pc = "fetch_done" => (~r.raised /\ r.info = loc.info /\ r.fallback = loc.fallback)
        /\ pc = "fetch_raised" => r.raised

\* C1: when the structured data gives a title and the heading stage gives a different
\* one, the static pass returns the structured-data title.
StaticTitleFirstWriterWins ==
    (/\ pc \in {"fetch_done", "fetch_fallback"}
     /\ Truthy(loc.jd.title)
     /\ Truthy(loc.body_title)
     /\ loc.body_title # loc.jd.title)
        => loc.static.title = loc.jd.title

\* C10: the fallback runs exactly when the static pass left title, author, publisher
\* and cover all absent; no failure of the rendered path makes fetch_detail raise, the
\* static record being returned instead; and rendered values only fill absent fields.
FallbackContained ==
    /\ pc \in {"fetch_done", "fetch_fallback"} =>
            ((loc.fallback \/ pc = "fetch_fallback") <=> CoreEmpty(loc.static))
    /\ pc = "fetch_raised" => loc.raised = "static"
    /\ pc = "fetch_done" =>
            \A k \in DOMAIN loc.static : Truthy(loc.static[k]) => loc.info[k] = loc.static[k]

----------------------------------------------------------------------------
(* choose_best_id *)

CandCap == 5

\* a plausible slip: >= in place of >, so the last of several best candidates wins
BetterGe(score, acc) == ~FGt(acc.best_score, score)

\* score > best_score
Better(score, acc) == FGt(score, acc.best_score)

\* if score > best_score: best, best_score = kid, score
Keep(kid, score, acc, better) ==
    IF better THEN [best |-> Str(kid), best_score |-> score] ELSE acc

RECURSIVE ChooseLoop(_, _, _, _, _)

\* one pass of the loop body, brief being what the preview fetch gave
ChooseBody(key, kids, site, acc, fetched, brief, score) ==
    IF brief.raised
    THEN [raised |-> TRUE, best |-> None, fetched |-> Append(fetched, Head(kids))]
    ELSE ChooseLoop(key, Tail(kids), site,
            Keep(Head(kids), score, acc, Better(score, acc)),
            Append(fetched, Head(kids)))

\* score = _sim(key, _norm(brief.get("title") or ""))
BriefScore(key, brief) == _sim(key, _norm(PyOr(brief.info.title, Str(<<>>))))

ScoredBody(key, kids, site, acc, fetched, brief) ==
    ChooseBody(key, kids, site, acc, fetched, brief, BriefScore(key, brief))

\* the loop over ids[:5]: one preview fetch per candidate
ChooseLoop(key, kids, site, acc, fetched) ==
    IF kids = <<>> THEN [raised |-> FALSE, best |-> acc.best, fetched |-> fetched]
    ELSE ScoredBody(key, kids, site, acc, fetched,
                    fetch_detail(Head(kids), site[Head(kids)], TRUE))

\* the result says whether a preview fetch raised, the chosen identifier (or None)
\* and the candidates whose preview was fetched, in order
choose_best_id(title, ids, site) ==
    IF ids = <<>> THEN [raised |-> FALSE, best |-> None, fetched |-> <<>>]
    ELSE ChooseLoop(_norm(title), Slice(ids, 0, CandCap), site,
                    [best |-> None, best_score |-> MinusOne], <<>>)

----------------------------------------------------------------------------
(* Specification of candidate selection: choose_best_id on every ordered   *)
(* list of distinct candidates of a fixed catalog                          *)

MaxCands == 6

Kid(a, b, c) == <<"S", "0", "0", "0", a, b, c>>

NoPage == [ok |-> TRUE, items |-> <<>>, headings |-> <<>>, og |-> None, pagesText |-> None]
NoRender == [items |-> <<>>, headings |-> <<>>, og |-> None, pagesText |-> None]

\* a detail page whose JSON-LD names the book
NamedPage(name) ==
    [NoPage EXCEPT !.items = <<Item("Book", Str(name), Str(<<"w">>), None, None, None)>>]

\* a detail page with the title in its heading only
HeadedPage(text) == [NoPage EXCEPT !.headings = <<text>>, !.og = Str(<<"c">>)]

Entry(page, rendered, browser) == [page |-> page, rendered |-> rendered, browser |-> browser]

Site ==
    (Kid("0", "0", "1") :> Entry(NamedPage(<<"a", "b", " ", "c">>), NoRender, "never")) @@
    (Kid("0", "1", "0") :> Entry(HeadedPage(<<" ", "A", "B", " ", " ", "c">>), NoRender, "never")) @@
    (Kid("0", "1", "1") :> Entry(NamedPage(<<"a", "b">>), NoRender, "missing")) @@
    (Kid("1", "0", "0") :> Entry(NoPage, NoRender, "goto")) @@
    (Kid("1", "0", "1") :> Entry(NamedPage(<<"b", " ", "c">>), NoRender, "never")) @@
    (Kid("1", "1", "0") :> Entry(FailingPage, NoRender, "never")) @@
    (Kid("1", "1", "1") :> Entry(HeadedPage(<<"B", " ", "C", " ", "|", " ", "a">>), NoRender, "never"))

ChooseTitles == { Str(<<"A", "b", " ", " ", "c">>), Str(<<>>), Str(<<"z", "z">>) }

\* list(dict.fromkeys(...)): ordered, no identifier twice
CandidateLists(ids, n) ==
    {l \in UNION {[1..k -> ids] : k \in 0..n} :
        \A i, j \in 1..Len(l) : i # j => l[i] # l[j]}

InitChoose ==
    /\ pc = "choose_call"
    /\ inp \in [title : ChooseTitles,
                ids : CandidateLists(DOMAIN Site, MaxCands)]
    /\ loc = <<>>
    /\ db = <<>>
    /\ calls = <<>>

PreviewCalls(fetched) == [i \in 1..Len(fetched) |-> <<"preview", fetched[i]>>]

ChooseReturns ==
    /\ pc = "choose_call"
    /\ LET r == choose_best_id(inp.title, inp.ids, Site)
       IN  /\ ~r.raised
           /\ loc' = [best |-> r.best]
           /\ calls' = calls \o PreviewCalls(r.fetched)
    /\ pc' = "choose_done"
    /\ UNCHANGED <<inp, db>>

\* a preview fetch raises and nothing catches it
ChooseRaises ==
    /\ pc = "choose_call"
    /\ LET r == choose_best_id(inp.title, inp.ids, Site)
       IN  /\ r.raised
           /\ loc' = [raised |-> "preview"]
           /\ calls' = calls \o PreviewCalls(r.fetched)
    /\ pc' = "choose_raised"
    /\ UNCHANGED <<inp, db>>

NextChoose == ChooseReturns \/ ChooseRaises

SpecChoose == InitChoose /\ [][NextChoose]_vars

\* the title a preview fetch of each catalog entry gives
PreviewTitles == [k \in DOMAIN Site |-> fetch_detail(k, Site[k], TRUE).info.title]

\* the similarity of the query title to the preview title of candidate kid
PreviewScore(title, kid) ==
    _sim(_norm(title), _norm(PyOr(PreviewTitles[kid], Str(<<>>))))

\* C4: the result is fixed by the inputs: None exactly for the empty list, else the
\* earliest candidate of the capped prefix whose preview title has the greatest
\* similarity to the normalized query title; only the capped prefix is fetched.
ChooseFirstMaxOfPrefix ==
    pc = "choose_done" =>
        LET n == Min(Len(inp.ids), CandCap)
            sc(j) == PreviewScore(inp.title, inp.ids[j])
        IN  /\ (loc.best = None) <=> (inp.ids = <<>>)
            /\ calls = [j \in 1..n |-> <<"preview", inp.ids[j]>>]
            /\ inp.ids # <<>> =>
                \E i \in 1..n :
                    /\ loc.best = Str(inp.ids[i])
                    /\ \A j \in 1..n : sc(j).n * sc(i).d <= sc(i).n * sc(j).d
                    /\ \A j \in 1..(i - 1) : sc(j).n * sc(i).d < sc(i).n * sc(j).d

\* more candidates than the cap, the one past the cap never fetched (its page would
\* raise), two candidates of the prefix share the greatest, non-zero score and the
\* earlier of them, not the first of the list, is returned
ChooseWitness ==
    /\ pc = "choose_done"
    /\ Len(inp.ids) > CandCap
    /\ ~Site[inp.ids[CandCap + 1]].page.ok
    /\ \E i, j \in 2..CandCap :
        /\ i < j
        /\ loc.best = Str(inp.ids[i])
        /\ PreviewScore(inp.title, inp.ids[i]).n > 0
        /\ PreviewScore(inp.title, inp.ids[j]) = PreviewScore(inp.title, inp.ids[i])

\* a non-empty list whose candidates all score 0.0 still yields its first identifier
ChooseAllZero ==
    /\ pc = "choose_done"
    /\ inp.ids # <<>>
    /\ \A j \in 1..Min(Len(inp.ids), CandCap) : PreviewScore(inp.title, inp.ids[j]).n = 0
    /\ loc.best = Str(inp.ids[1])

----------------------------------------------------------------------------
(* The Notion database: build_value and update_page.                       *)
(* A property value is [kind, val, items, on]: kind is the Notion type the *)
(* value is shaped for, val its text or number, items the names of a       *)
(* multi-select, on the state of a checkbox.                               *)

Props == {"TITLE_PROP", "AUTHOR_PROP", "PUBLISHER_PROP", "PAGES_PROP", "GENRE_PROP",
          "STATUS_PROP", "KY_URL_PROP", "REQUEST_PROP", "READ_PAGES_PROP"}

\* the types build_value shapes a value for
Recognized == {"title", "rich_text", "url", "number", "select", "multi_select", "checkbox"}

PV(kind, val, items, on) == [kind |-> kind, val |-> val, items |-> items, on |-> on]
NoValue == PV("none", None, <<>>, FALSE)

\* a property update_page has not written
Old == PV("old", None, <<>>, FALSE)

NotStarted == Str(<<"not started">>)

\* str(n) for n >= 0
RECURSIVE IntStr(_)
IntStr(n) == IF n < 10 THEN <<Digits[n + 1]>> ELSE IntStr(n \div 10) \o <<Digits[(n % 10) + 1]>>

\* str(v)
PyStr(v) == IF v.t = "int" THEN IntStr(v.n) ELSE v.s

\* whether int(v) returns
IntOk(v) == v.t = "int" \/ (v.t = "str" /\ IsDigits(Strip(v.s)))

\* int(v)
PyInt(v) == IF v.t = "int" THEN v.n ELSE ParseInt(Strip(v.s))

\* [s.strip() for s in parts if s.strip()]
RECURSIVE StrippedNonEmpty(_)
StrippedNonEmpty(parts) ==
    IF parts = <<>> THEN <<>>
    ELSE (IF Strip(Head(parts)) # <<>> THEN <<Strip(Head(parts))>> ELSE <<>>)
            \o StrippedNonEmpty(Tail(parts))

\* a plausible slip: a type build_value does not know is written as text
build_value_as_text(ptype, v) ==
    IF v = None THEN NoValue
    ELSE IF ptype = "number"
    THEN (IF IntOk(v) THEN PV("number", Num(PyInt(v)), <<>>, FALSE) ELSE NoValue)
    ELSE IF ptype = "multi_select"
    THEN PV("multi_select", None, StrippedNonEmpty(Split(PyStr(v), ",")), FALSE)
    ELSE IF ptype = "checkbox" THEN PV("checkbox", None, <<>>, Truthy(v))
    ELSE IF ptype \in {"title", "url", "select"} THEN PV(ptype, Str(PyStr(v)), <<>>, FALSE)
    ELSE PV("rich_text", Str(PyStr(v)), <<>>, FALSE)

build_value(ptype, v) ==
    IF v = None THEN NoValue
    ELSE IF ptype \in {"title", "rich_text", "url", "select"}
    THEN PV(ptype, Str(PyStr(v)), <<>>, FALSE)
    ELSE IF ptype = "number"
    THEN (IF IntOk(v) THEN PV("number", Num(PyInt(v)), <<>>, FALSE) ELSE NoValue)
    ELSE IF ptype = "multi_select"
    THEN PV("multi_select", None, StrippedNonEmpty(Split(PyStr(v), ",")), FALSE)
    ELSE IF ptype = "checkbox" THEN PV("checkbox", None, <<>>, Truthy(v))
    ELSE NoValue

\* page_prop_type: the declared type of a property, "absent" for None
page_prop_type(schema, name) == schema[name]

\* the first property whose type is "title", "absent" when there is none
TitlePropOf(schema) ==
    IF \E n \in Props : schema[n] = "title"
    THEN CHOOSE n \in Props : schema[n] = "title" ELSE "absent"

\* author, publisher, pages, url: if ptype and val is not None: pv = build_value(...);
\* if pv: patch[name] = pv
FieldEntry(ptype, val) ==
    IF ptype # "absent" /\ val # None THEN build_value(ptype, val) ELSE NoValue

\* mapped = map_genre(genre or title); written for a select or multi_select only
GenreEntry(gtype, mapped) ==
    IF Truthy(mapped) /\ gtype \in {"select", "multi_select"}
    THEN build_value(gtype, mapped) ELSE NoValue

StatusEntry(stype) ==
    IF stype = "select" THEN PV("select", NotStarted, <<>>, FALSE) ELSE NoValue

\* a plausible slip: the request flag is written back unchanged
RequestEntryKept(rtype) ==
    IF rtype = "checkbox" THEN PV("checkbox", None, <<>>, TRUE) ELSE NoValue

RequestEntry(rtype) ==
    IF rtype = "checkbox" THEN PV("checkbox", None, <<>>, FALSE) ELSE NoValue

\* what update_page decides for each property; NoValue where it writes nothing
PatchEntries(schema, info, gmap) ==
    [name \in Props |->
        CASE name = TitlePropOf(schema) ->
                IF Truthy(info.title) THEN build_value("title", info.title) ELSE NoValue
          [] name = "AUTHOR_PROP"    -> FieldEntry(page_prop_type(schema, name), info.author)
          [] name = "PUBLISHER_PROP" -> FieldEntry(page_prop_type(schema, name), info.publisher)
          [] name = "PAGES_PROP"     -> FieldEntry(page_prop_type(schema, name), info.pages)
          [] name = "KY_URL_PROP"    -> FieldEntry(page_prop_type(schema, name), info.detail_url)
          [] name = "GENRE_PROP"     ->
                GenreEntry(page_prop_type(schema, name),
                           map_genre(PyOr(info.genre, info.title), gmap))
          [] name = "STATUS_PROP"    -> StatusEntry(page_prop_type(schema, name))
          [] name = "REQUEST_PROP"   -> RequestEntry(page_prop_type(schema, name))
          [] OTHER -> NoValue]

\* the patch dict: the properties update_page writes
PatchOf(entries) == [name \in {n \in Props : entries[n] # NoValue} |-> entries[name]]

BuildPatch(schema, info, gmap) == PatchOf(PatchEntries(schema, info, gmap))

\* nc.pages.update(page_id, properties=patch) on a row
ApplyPatch(row, patch) ==
    [row EXCEPT !.props = [n \in Props |-> IF n \in DOMAIN patch THEN patch[n] ELSE @[n]]]

----------------------------------------------------------------------------
(* run_once: resolving an identifier for a row                             *)

IdDigits == 6

\* the number of digits at the head of s
RECURSIVE DigitRun(_)
DigitRun(s) == IF s # <<>> /\ IsDigit(Head(s)) THEN 1 + DigitRun(Tail(s)) ELSE 0

\* re.search: the leftmost "S" followed by at least `least` digits, with all of them
RECURSIVE SearchId(_, _)
SearchId(s, least) ==
    IF s = <<>> THEN None
    ELSE IF Head(s) = "S" /\ DigitRun(Tail(s)) >= least
    THEN Str(Slice(s, 0, 1 + DigitRun(Tail(s))))
    ELSE SearchId(Tail(s), least)

\* a plausible slip: one digit more is asked for
extract_id_longer(v) == IF ~Truthy(v) THEN None ELSE SearchId(v.s, IdDigits + 1)

extract_id(v) == IF ~Truthy(v) THEN None ELSE SearchId(v.s, IdDigits)

\* list(dict.fromkeys(hits)): the first occurrence of each, in order
RECURSIVE Dedup(_, _)
Dedup(hits, seen) ==
    IF hits = <<>> THEN <<>>
    ELSE IF Head(hits) \in seen THEN Dedup(Tail(hits), seen)
    ELSE <<Head(hits)>> \o Dedup(Tail(hits), seen \cup {Head(hits)})

\* search_candidates_by_title on what the two result pages hold: [raises, desktop,
\* mobile], raises naming the request that fails ("never" for none).  The result
\* says whether the call raised, the identifiers and whether the mobile page was asked
search_candidates_by_title(found) ==
    IF found.raises = "desktop"
    THEN [raised |-> TRUE, ids |-> <<>>, mobile |-> FALSE]
    ELSE IF Dedup(found.desktop, {}) # <<>>
    THEN [raised |-> FALSE, ids |-> Dedup(found.desktop, {}), mobile |-> FALSE]
    ELSE IF found.raises = "mobile"
    THEN [raised |-> TRUE, ids |-> <<>>, mobile |-> TRUE]
    ELSE [raised |-> FALSE, ids |-> Dedup(found.mobile, {}), mobile |-> TRUE]

\* page_title: the text of the title property, stripped
page_title(props) ==
    IF \E n \in Props : props[n].kind = "title"
    THEN Str(Strip(props[CHOOSE n \in Props : props[n].kind = "title"].val.s))
    ELSE Str(<<>>)

\* the catalog's answer for an identifier; one it does not know is an HTTP error
SiteEntry(kid) == IF kid \in DOMAIN Site THEN Site[kid] ELSE Entry(FailingPage, NoRender, "never")

\* GENRE_MAP
RunGenreMap == << [keys |-> <<"a">>, val |-> Str(<<"X", ",", "Y">>)] >>

\* a row as the database holds it before the run
RowOf(kind, schema) ==
    [cover |-> None,
     props |-> [n \in Props |->
        CASE n = "TITLE_PROP"   -> PV("title", Str(kind.title), <<>>, FALSE)
          [] n = "KY_URL_PROP"  -> IF schema[n] = "url" THEN PV("url", kind.url, <<>>, FALSE) ELSE Old
          [] n = "REQUEST_PROP" -> IF schema[n] = "checkbox"
                                   THEN PV("checkbox", None, <<>>, kind.pending) ELSE Old
          [] OTHER -> Old]]

Call(op, row, id) == [op |-> op, row |-> row, id |-> id]

\* ensure_status_option
EnsuredOptions(schema, options) ==
    IF schema["STATUS_PROP"] # "select" THEN options ELSE options \cup {NotStarted}

\* query_pending_pages: the rows whose request checkbox is set, in order
RECURSIVE PendingFrom(_, _)
PendingFrom(rows, r) ==
    IF r > Len(rows) THEN <<>>
    ELSE (IF rows[r].props["REQUEST_PROP"].on THEN <<r>> ELSE <<>>) \o PendingFrom(rows, r + 1)

query_pending_pages(rows) == PendingFrom(rows, 1)

\* the row being processed
Cur == loc.pages[loc.i]

\* for pg in pages: the loop goes to the next row or ends
Advance(l) ==
    /\ pc' = IF l.i < Len(l.pages) THEN "row_begin" ELSE "run_done"
    /\ loc' = [l EXCEPT !.i = IF l.i < Len(l.pages) THEN l.i + 1 ELSE l.i]

\* ensure_status_option, then query_pending_pages; the filter on REQUEST_PROP is
\* accepted only for a checkbox property
RunStart ==
    /\ pc = "run_start"
    /\ inp.schema["REQUEST_PROP"] = "checkbox"
    /\ db' = [db EXCEPT !.options = EnsuredOptions(inp.schema, @)]
    /\ pc' = IF query_pending_pages(db.rows) = <<>> THEN "run_done" ELSE "row_begin"
    /\ loc' = [loc EXCEPT !.pages = query_pending_pages(db.rows),
                          !.i = IF query_pending_pages(db.rows) = <<>> THEN 0 ELSE 1]
    /\ UNCHANGED <<inp, calls>>

\* a request of ensure_status_option or the query raises
RunStartRaises ==
    /\ pc = "run_start"
    /\ \E o \in {db.options, EnsuredOptions(inp.schema, db.options)} :
            db' = [db EXCEPT !.options = o]
    /\ pc' = "raised"
    /\ UNCHANGED <<inp, loc, calls>>

\* title = page_title(props); kyobo_id from the stored URL of a url-typed property
RowBegin ==
    /\ pc = "row_begin"
    /\ loc' = [loc EXCEPT
                !.title = page_title(RowOf(inp.rows[Cur], inp.schema).props),
                !.kyobo_id =
                    IF RowOf(inp.rows[Cur], inp.schema).props["KY_URL_PROP"].kind = "url"
                    THEN extract_id(RowOf(inp.rows[Cur], inp.schema).props["KY_URL_PROP"].val)
                    ELSE None,
                !.state[Cur] = "started"]
    /\ pc' = IF Truthy(loc'.kyobo_id) THEN "row_fetch" ELSE "row_search"
    /\ UNCHANGED <<inp, db, calls>>

SearchCalls(found) ==
    <<Call("search", Cur, <<>>)>> \o
    (IF found.mobile THEN <<Call("search_mobile", Cur, <<>>)>> ELSE <<>>)

RowPreviewCalls(fetched) == [j \in 1..Len(fetched) |-> Call("preview", Cur, fetched[j])]

\* a search request raises and nothing catches it
RowSearchRaises ==
    /\ pc = "row_search"
    /\ search_candidates_by_title(inp.rows[Cur].found).raised
    /\ calls' = calls \o SearchCalls(search_candidates_by_title(inp.rows[Cur].found))
    /\ pc' = "raised"
    /\ UNCHANGED <<inp, loc, db>>

\* what choose_best_id gives for the search results of the current row
RowChoice == choose_best_id(loc.title, search_candidates_by_title(inp.rows[Cur].found).ids, Site)

\* a preview fetch of choose_best_id raises and nothing catches it
RowChooseRaises ==
    /\ pc = "row_search"
    /\ ~search_candidates_by_title(inp.rows[Cur].found).raised
    /\ RowChoice.raised
    /\ calls' = calls \o SearchCalls(search_candidates_by_title(inp.rows[Cur].found))
                      \o RowPreviewCalls(RowChoice.fetched)
    /\ pc' = "raised"
    /\ UNCHANGED <<inp, loc, db>>

\* a plausible slip: the skipped row is taken off the pending list
RowSkippedCleared ==
    /\ pc = "row_search"
    /\ ~search_candidates_by_title(inp.rows[Cur].found).raised
    /\ ~RowChoice.raised
    /\ ~Truthy(RowChoice.best)
    /\ calls' = calls \o SearchCalls(search_candidates_by_title(inp.rows[Cur].found))
                      \o RowPreviewCalls(RowChoice.fetched)
    /\ db' = [db EXCEPT !.rows[Cur].props["REQUEST_PROP"].on = FALSE]
    /\ Advance([loc EXCEPT !.state[Cur] = "skipped"])
    /\ UNCHANGED inp

\* if not kyobo_id: warn and continue
RowSkipped ==
    /\ pc = "row_search"
    /\ ~search_candidates_by_title(inp.rows[Cur].found).raised
    /\ ~RowChoice.raised
    /\ ~Truthy(RowChoice.best)
    /\ calls' = calls \o SearchCalls(search_candidates_by_title(inp.rows[Cur].found))
                      \o RowPreviewCalls(RowChoice.fetched)
    /\ Advance([loc EXCEPT !.state[Cur] = "skipped"])
    /\ UNCHANGED <<inp, db>>

RowChosen ==
    /\ pc = "row_search"
    /\ ~search_candidates_by_title(inp.rows[Cur].found).raised
    /\ ~RowChoice.raised
    /\ Truthy(RowChoice.best)
    /\ calls' = calls \o SearchCalls(search_candidates_by_title(inp.rows[Cur].found))
                      \o RowPreviewCalls(RowChoice.fetched)
    /\ loc' = [loc EXCEPT !.kyobo_id = RowChoice.best]
    /\ pc' = "row_fetch"
    /\ UNCHANGED <<inp, db>>

\* info = fetch_detail(kyobo_id, light=False) for the current row
RowDetail == fetch_detail(loc.kyobo_id.s, SiteEntry(loc.kyobo_id.s), FALSE)

RowFetchRaises ==
    /\ pc = "row_fetch"
    /\ RowDetail.raised
    /\ calls' = Append(calls, Call("detail", Cur, loc.kyobo_id.s))
    /\ pc' = "raised"
    /\ UNCHANGED <<inp, loc, db>>

RowFetched ==
    /\ pc = "row_fetch"
    /\ ~RowDetail.raised
    /\ calls' = Append(calls, Call("detail", Cur, loc.kyobo_id.s))
    /\ loc' = [loc EXCEPT !.info = RowDetail.info, !.state[Cur] = "fetched"]
    /\ pc' = "update_cover"
    /\ UNCHANGED <<inp, db>>

\* update_page, first part: if info.get("cover"): the cover is written
UpdateCover ==
    /\ pc = "update_cover"
    /\ IF Truthy(loc.info.cover)
       THEN /\ db' = [db EXCEPT !.rows[Cur].cover = loc.info.cover]
            /\ calls' = Append(calls, Call("cover", Cur, <<>>))
       ELSE UNCHANGED <<db, calls>>
    /\ pc' = "update_patch"
    /\ UNCHANGED <<inp, loc>>

\* update_page, second part: the row is retrieved, the patch is built and,
\* if it is not empty, written
UpdatePatch ==
    /\ pc = "update_patch"
    /\ IF BuildPatch(inp.schema, loc.info, RunGenreMap) # <<>>
       THEN /\ db' = [db EXCEPT !.rows[Cur] =
                        ApplyPatch(@, BuildPatch(inp.schema, loc.info, RunGenreMap))]
            /\ calls' = Append(calls, Call("patch", Cur, <<>>))
       ELSE UNCHANGED <<db, calls>>
    /\ Advance([loc EXCEPT !.patch = BuildPatch(inp.schema, loc.info, RunGenreMap),
                           !.state[Cur] = "updated"])
    /\ UNCHANGED inp

\* a request of update_page to the database raises: the cover write, the retrieve
\* or the patch write; nothing catches it
NotionRaises ==
    /\ \/ pc = "update_cover" /\ Truthy(loc.info.cover)
       \/ pc = "update_patch"
    /\ pc' = "raised"
    /\ UNCHANGED <<inp, loc, db, calls>>

----------------------------------------------------------------------------
(* Specification of update_page: one call on one row, for every declared   *)
(* schema and every metadata record of a bounded set                       *)

UpdateSchemas ==
    {[n \in Props |->
        CASE n = "TITLE_PROP"      -> "title"
          [] n = "AUTHOR_PROP"     -> f.author
          [] n = "PUBLISHER_PROP"  -> "select"
          [] n = "PAGES_PROP"      -> f.pages
          [] n = "GENRE_PROP"      -> f.genre
          [] n = "STATUS_PROP"     -> f.status
          [] n = "KY_URL_PROP"     -> f.url
          [] n = "REQUEST_PROP"    -> f.request
          [] OTHER                 -> "number"] :
     f \in [author : {"multi_select", "people", "absent"},
            pages : {"number", "rich_text", "date", "checkbox"},
            genre : {"select", "multi_select", "rich_text"},
            status : {"select", "status"},
            url : {"url", "absent"},
            request : {"checkbox", "absent"}]}

UpdateInfos ==
    {[EmptyInfo(Kid("0", "0", "1")) EXCEPT
        !.title = f.title, !.author = f.author, !.publisher = Str(<<"p">>),
        !.pages = f.pages, !.genre = f.genre, !.cover = f.cover] :
     f \in [title : {None, Str(<<"a">>)},
            author : {None, Str(<<"w", ",", " ", "v">>)},
            pages : {None, Num(10), Num(0), Str(<<"x">>)},
            genre : {None, Str(<<"r">>)},
            cover : {None, Str(<<"c">>)}]}

UpdateRow == [title |-> <<"a">>, url |-> None, pending |-> TRUE,
              found |-> [raises |-> "never", desktop |-> <<>>, mobile |-> <<>>]]

InitUpdate ==
    /\ pc = "update_cover"
    /\ inp \in [schema : UpdateSchemas, rows : {<<UpdateRow>>}, info : UpdateInfos]
    /\ loc = [pages |-> <<1>>, i |-> 1, title |-> Str(<<"a">>),
              kyobo_id |-> inp.info.kyobo_id, info |-> inp.info, patch |-> <<>>,
              state |-> <<"fetched">>]
    /\ db = [rows |-> <<RowOf(UpdateRow, inp.schema)>>, options |-> {}]
    /\ calls = <<>>

NextUpdate == UpdateCover \/ UpdatePatch \/ NotionRaises

SpecUpdate == InitUpdate /\ [][NextUpdate]_vars

\* the properties of the loop over author, publisher, pages and url, with their values
LoopFields(info) ==
    [AUTHOR_PROP |-> info.author, PUBLISHER_PROP |-> info.publisher,
     PAGES_PROP |-> info.pages, KY_URL_PROP |-> info.detail_url]

\* a value the declared type can take: only a number can refuse a value
Fits(type, v) ==
    type = "number" =>
        \/ v.t = "int"
        \/ v.t = "str" /\ Strip(v.s) # <<>> /\ \A i \in 1..Len(Strip(v.s)) : IsDigit(Strip(v.s)[i])

\* C7: after update_page, every property in the patch has a recognized declared type
\* and a value of that type; each of author, publisher, pages and url whose type is
\* recognized and whose value is present and fits the type is in the patch, whatever
\* happened to the other fields, and one that does not fit is left out alone; a
\* patch that is not empty has been written to the row.
UpdatePatchesRecognizedOnly ==
    (pc = "run_done" /\ loc.state[1] = "updated") =>
        /\ \A n \in DOMAIN loc.patch :
                /\ inp.schema[n] \in Recognized
                /\ loc.patch[n].kind = inp.schema[n]
        /\ \A n \in DOMAIN LoopFields(inp.info) :
                (n \in DOMAIN loc.patch) <=>
                    /\ inp.schema[n] \in Recognized
                    /\ LoopFields(inp.info)[n] # None
                    /\ Fits(inp.schema[n], LoopFields(inp.info)[n])
        /\ loc.patch # <<>> =>
                /\ calls[Len(calls)] = Call("patch", 1, <<>>)
                /\ \A n \in DOMAIN loc.patch : db.rows[1].props[n] = loc.patch[n]

\* a non-numeric page count for a number-typed property is dropped, a property of an
\* unrecognized type is left out, and the publisher and the URL are written
UpdateWitness ==
    /\ pc = "run_done"
    /\ loc.state[1] = "updated"
    /\ inp.schema["PAGES_PROP"] = "number"
    /\ inp.info.pages = Str(<<"x">>)
    /\ inp.schema["AUTHOR_PROP"] = "people"
    /\ inp.info.author # None
    /\ DOMAIN loc.patch \cap {"AUTHOR_PROP", "PAGES_PROP"} = {}
    /\ db.rows[1].props["PUBLISHER_PROP"] = PV("select", Str(<<"p">>), <<>>, FALSE)
    /\ db.rows[1].props["KY_URL_PROP"].kind = "url"

----------------------------------------------------------------------------
(* Specification of run_once: one run over every database of up to MaxRows *)
(* rows drawn from a fixed set of row kinds                                *)

MaxRows == 3

RunSchema(author, pages, genre, status, request) ==
    [n \in Props |->
        CASE n = "TITLE_PROP"      -> "title"
          [] n = "AUTHOR_PROP"     -> author
          [] n = "PUBLISHER_PROP"  -> "rich_text"
          [] n = "PAGES_PROP"      -> pages
          [] n = "GENRE_PROP"      -> genre
          [] n = "STATUS_PROP"     -> status
          [] n = "KY_URL_PROP"     -> "url"
          [] n = "REQUEST_PROP"    -> request
          [] OTHER                 -> "number"]

RunSchemas ==
    { RunSchema("rich_text", "number", "select", "select", "checkbox"),
      RunSchema("absent", "date", "rich_text", "status", "checkbox"),
      RunSchema("rich_text", "number", "select", "select", "absent") }

Found(raises, desktop, mobile) == [raises |-> raises, desktop |-> desktop, mobile |-> mobile]

RowKind(title, url, pending, found) ==
    [title |-> title, url |-> url, pending |-> pending, found |-> found]

RowKinds ==
    { \* a stored URL with an identifier; the search would have chosen another book
      RowKind(<<"b", " ", "c">>, Str(<<"/">> \o Kid("0", "0", "1")), TRUE,
              Found("never", <<Kid("1", "0", "1")>>, <<>>)),
      \* no URL: the desktop search lists two books with the same normalized title
      RowKind(<<" ", "A", "b", " ", " ", "c">>, None, TRUE,
              Found("never", <<Kid("0", "1", "0"), Kid("0", "1", "0"), Kid("0", "0", "1")>>, <<>>)),
      \* a URL with too few digits and two empty result pages
      RowKind(<<"z">>, Str(<<"/", "S", "0", "0", "0", "0", "1">>), TRUE,
              Found("never", <<>>, <<>>)),
      \* no URL: only the mobile search has a hit, and its page is an HTTP error
      RowKind(<<"a">>, None, TRUE, Found("never", <<>>, <<Kid("1", "1", "0")>>)),
      \* a URL with two identifiers, the first of a page that gives no field at all
      RowKind(<<"a", "b">>,
              Str(<<"S", "0", "/">> \o Kid("1", "0", "0") \o <<"?">> \o Kid("0", "0", "1")),
              TRUE, Found("desktop", <<>>, <<>>)),
      \* no URL and the search request fails
      RowKind(<<"a">>, None, TRUE, Found("desktop", <<>>, <<>>)),
      \* a URL whose identifier has a seventh digit; the catalog does not know it
      RowKind(<<"a">>, Str(<<"/">> \o Kid("1", "0", "1") \o <<"1">>), TRUE,
              Found("never", <<Kid("1", "0", "1")>>, <<>>)),
      \* a row that is not pending
      RowKind(<<"a", "b">>, Str(<<"/">> \o Kid("0", "0", "1")), FALSE,
              Found("never", <<>>, <<>>)) }

InitRun ==
    /\ pc = "run_start"
    /\ inp \in {x \in [schema : RunSchemas,
                        rows : UNION {[1..n -> RowKinds] : n \in 0..MaxRows},
                        options : {{}, {NotStarted}}] :
                    \* the options matter to a select status property only
                    x.options # {} => x.schema["STATUS_PROP"] = "select"}
    /\ loc = [pages |-> <<>>, i |-> 0, title |-> Str(<<>>), kyobo_id |-> None,
              info |-> EmptyInfo(<<>>), patch |-> <<>>,
              state |-> [r \in 1..Len(inp.rows) |-> "idle"]]
    /\ db = [rows |-> [r \in 1..Len(inp.rows) |-> RowOf(inp.rows[r], inp.schema)],
             options |-> inp.options]
    /\ calls = <<>>

NextRun ==
    \/ RunStart
    \/ RunStartRaises
    \/ RowBegin
    \/ RowSearchRaises
    \/ RowChooseRaises
    \/ RowSkipped
    \/ RowChosen
    \/ RowFetchRaises
    \/ RowFetched
    \/ UpdateCover
    \/ UpdatePatch
    \/ NotionRaises

SpecRun == InitRun /\ [][NextRun]_vars

\* the calls made for row r with one of the operations ops
CallsFor(r, ops) == {j \in 1..Len(calls) : calls[j].row = r /\ calls[j].op \in ops}

\* C2: a row that has reached Updated (its identifier was resolved, fetch_detail and
\* update_page returned) has its request flag false, whatever else was written.
UpdatedRowIsUnflagged ==
    \A r \in 1..Len(db.rows) :
        loc.state[r] = "updated" =>
            /\ db.rows[r].props["REQUEST_PROP"].kind = "checkbox"
            /\ ~db.rows[r].props["REQUEST_PROP"].on

\* a row whose fetched record has every field absent and no cover is Updated: the
\* patch holds nothing of the book but the URL, and the flag is cleared
UnflaggedWitness ==
    \E r \in 1..Len(db.rows) :
        /\ loc.state[r] = "updated"
        /\ pc = "run_done"
        /\ loc.pages[loc.i] = r
        /\ CoreEmpty(loc.info)
        /\ loc.info.cover = None
        /\ db.rows[r].cover = None
        /\ DOMAIN loc.patch \cap {"TITLE_PROP", "AUTHOR_PROP", "PUBLISHER_PROP",
                                  "PAGES_PROP", "GENRE_PROP"} = {}
        /\ ~db.rows[r].props["REQUEST_PROP"].on

\* C3: a row that update_page has not been called for is as it was before the run,
\* flag included, also after the run was aborted; nothing but the search and the
\* previews is asked for a skipped row, and once skipped it stays skipped and
\* unchanged while the run goes on with the rows after it.
UnreachedRowsUnchanged ==
    /\ [](\A r \in 1..Len(db.rows) :
            /\ loc.state[r] \in {"idle", "started", "skipped"} =>
                    /\ db.rows[r] = RowOf(inp.rows[r], inp.schema)
                    /\ CallsFor(r, {"cover", "patch"}) = {}
            /\ (loc.state[r] \in {"idle", "started"} /\ \E k \in 1..Len(loc.pages) : loc.pages[k] = r) =>
                    db.rows[r].props["REQUEST_PROP"].on
            /\ loc.state[r] = "skipped" =>
                    /\ db.rows[r].props["REQUEST_PROP"].on
                    /\ CallsFor(r, {"detail"}) = {}
                    /\ pc = "run_done" \/ pc = "raised" \/ loc.pages[loc.i] > r)
    /\ [][\A r \in 1..Len(db.rows) :
            loc.state[r] = "skipped" =>
                /\ loc'.state[r] = "skipped"
                /\ db'.rows[r] = db.rows[r]
                /\ loc'.i >= loc.i]_vars

\* the first row was skipped, the run went on, an error of the catalog aborted it in
\* the second row, and the third row, still pending, was never started
UnreachedWitness ==
    /\ pc = "raised"
    /\ Len(db.rows) = 3
    /\ loc.state = <<"skipped", "started", "idle">>
    /\ CallsFor(2, {"detail"}) # {}
    /\ db.rows[1].props["REQUEST_PROP"].on
    /\ db.rows[3].props["REQUEST_PROP"].on

\* position i of s holds the identifier pattern: "S" and IdDigits digits after it
PatternAt(s, i) ==
    /\ i + IdDigits <= Len(s)
    /\ s[i] = "S"
    /\ \A d \in 1..IdDigits : IsDigit(s[i + d])

HasPattern(v) == v.t = "str" /\ \E i \in 1..Len(v.s) : PatternAt(v.s, i)

\* kid is the leftmost match of the pattern in s, with every digit that follows it
IsLeftmostId(kid, s) ==
    \E i \in 1..Len(s) :
        /\ PatternAt(s, i)
        /\ \A j \in 1..(i - 1) : ~PatternAt(s, j)
        /\ \E n \in IdDigits..(Len(s) - i) :
            /\ kid = [d \in 1..(n + 1) |-> s[i + d - 1]]
            /\ \A d \in 1..n : IsDigit(s[i + d])
            /\ (i + n < Len(s) => ~IsDigit(s[i + n + 1]))

\* C9: for a pending row whose stored URL holds the identifier pattern, neither
\* search page nor any preview is ever requested, and once the row is past its
\* fetch, exactly one full fetch was made for it, for the identifier of the URL.
StoredIdUsedDirectly ==
    \A r \in 1..Len(db.rows) :
        (inp.rows[r].pending /\ HasPattern(inp.rows[r].url)) =>
            /\ CallsFor(r, {"search", "search_mobile", "preview"}) = {}
            /\ loc.state[r] # "skipped"
            /\ \A j \in CallsFor(r, {"detail"}) : IsLeftmostId(calls[j].id, inp.rows[r].url.s)
            /\ (loc.state[r] \in {"fetched", "updated"}
                \/ (loc.state[r] = "started" /\ pc = "raised"))
                    => \E j \in CallsFor(r, {"detail"}) : CallsFor(r, {"detail"}) = {j}

\* a row whose URL holds two identifiers after a false start is Updated from the
\* first of them, although its search would have failed
StoredIdWitness ==
    \E r \in 1..Len(db.rows) :
        /\ loc.state[r] = "updated"
        /\ HasPattern(inp.rows[r].url)
        /\ inp.rows[r].found.raises = "desktop"
        /\ \E j \in CallsFor(r, {"detail"}) : calls[j].id = Kid("1", "0", "0")
        /\ db.rows[r].props["KY_URL_PROP"].val = DetailUrl(Kid("1", "0", "0"))

====
